---- MODULE Spec2Model ----
(***************************************************************************)
(* Model of train-ml-bot.py: the self-play dataset generator               *)
(* (create_dataset) and the module-level script that regenerates the       *)
(* dataset on demand and sweeps a grid of MLP shapes.                      *)
(*                                                                         *)
(* The game engine (api.State), the feature extractor (bots.ml.ml) and     *)
(* the classifier are collaborators whose code is not part of the file;    *)
(* they are modelled from their documented interface as nondeterministic   *)
(* operators.                                                              *)
(***************************************************************************)
EXTENDS Integers, Sequences, FiniteSets, TLC

\* ------------------------------------------------------------------ bounds
\* Largest value of the games argument of a direct call of create_dataset.
MaxGames == 3
\* Largest number of moves a generated game can still take.
MaxMoves == 2
\* The script's games argument (10000 in the source), scaled down.
MainGames == 2

\* ------------------------------------------------------- collaborators
Bots == {"rand", "rdeep", "bully"}

\* A winner id outside {1, 2} (a draw, None): the outcome the labelling
\* code has no branch for.
NoWinner == 0
Winners == {NoWinner, 1, 2}

\* The signature of a state nobody has obscured (None).
NoSignature == 0

\* State.generate(phase): a fresh, real state in the requested phase.
Generate(ph) ==
    { [phase |-> ph, turn |-> t, left |-> l, sig |-> NoSignature] :
        t \in 1..2, l \in 0..MaxMoves }

\* state.finished()
Finished(s) == s.left = 0

\* state.get_phase()
GetPhase(s) == s.phase

\* state.whose_turn()
WhoseTurn(s) == s.turn

\* state.clone(signature=p): the view of player p, private cards hidden.
Clone(s, p) == [s EXCEPT !.sig = p]

\* features(state): an encoding of whatever the given view shows.
Features(s) == <<s.phase, s.turn, s.left, s.sig>>

\* player.get_move(state): the move names the bot and the view it saw.
GetMove(bot, s) == [by |-> bot, seen |-> s]

\* state.next(move): the successor of s. A signature is inherited, the
\* other player is on turn, and the last move of a game is played in
\* phase 2 (the stock is exhausted by then).
NextState(s, move) ==
    [phase |-> IF s.left - 1 = 1 THEN 2 ELSE s.phase,
     turn  |-> 3 - s.turn,
     left  |-> s.left - 1,
     sig   |-> s.sig]

\* --------------------------------------------------------------- inputs
\* The player argument: one bot, or a list of bots to cycle through.
SinglePlayer(b) == [is_list |-> FALSE, bots |-> <<b>>]
Roster(bs) == [is_list |-> TRUE, bots |-> bs]

PlayerArgs ==
    { SinglePlayer("rand"),
      Roster(<<>>),
      Roster(<<"rdeep">>),
      Roster(<<"rand", "rdeep">>),
      Roster(<<"rand", "rdeep", "bully">>) }

\* The file at the dataset path: absent, or holding a pickled pair.
NoFile == [exists |-> FALSE, data |-> <<>>, target |-> <<>>]
FileOf(d, t) == [exists |-> TRUE, data |-> d, target |-> t]
\* A dataset left behind by an earlier run.
OldFile == FileOf(<< <<0, 0, 0, 0>> >>, <<"lost">>)

\* The value of a local that no statement has bound yet.
Unbound == "unbound"
NoState == [phase |-> 0, turn |-> 0, left |-> 0, sig |-> NoSignature]
NoCall == [real |-> NoState, featured |-> NoState, asked |-> NoState,
           advanced |-> NoState, bot |-> Unbound]

VARIABLES
    pc,            \* where control is
    caller,        \* "direct": create_dataset called on its own; "script"
    error,         \* the exception that ended the run, or "none"
    player_arg,    \* create_dataset's player argument
    games,         \* create_dataset's games argument
    phase,         \* create_dataset's phase argument
    data,          \* create_dataset's locals ...
    target,
    multiple_bots,
    player_list,   \* position of cycle(player): index of the next item
    g,
    state,
    state_vectors,
    player,
    winner,
    result,
    file,          \* the file at the dataset path
    returned,      \* the pair create_dataset returned, once it has
    writes,        \* how often the dataset path was opened for writing
    games_log,     \* history: one record per game started
    last_call,     \* history: the arguments of the last move's calls
    file0,         \* history: the file at the dataset path at the start
    calls,         \* history: how often create_dataset was entered
    options,       \* the parsed command line: overwrite, train
    cursor,        \* the sweep's loop cursors: indices into the two lists
    model_files,   \* the joblib.dump calls so far, in order
    sweep_log      \* history: the loads, fits and dumps of the sweep

dataset_vars == <<pc, caller, error, player_arg, games, phase, data, target,
                  multiple_bots, player_list, g, state, state_vectors, player,
                  winner, result, file, returned, writes, games_log,
                  last_call, file0, calls>>

script_vars == <<options, cursor, model_files, sweep_log>>

dataset_vars_but_pc == <<caller, error, player_arg, games, phase, data,
                         target, multiple_bots, player_list, g, state,
                         state_vectors, player, winner, result, file,
                         returned, writes, games_log, last_call, file0, calls>>

vars == <<dataset_vars, script_vars>>

\* ------------------------------------------------------- create_dataset
\* for g in range(games-1): the loop runs while g is in the range.
InRange(i, n) == 0 <= i /\ i < n - 1

\* next(player_list) on cycle(player): the item at the position.
CycleItem(bots, at) == bots[at]
\* A cycle that starts over one item early.
CycleWrapsEarly(bots, at) == IF at >= Len(bots) - 1 THEN 1 ELSE at + 1

\* ... and the position after it, wrapping to the first item.
CycleAdvance(bots, at) == (at % Len(bots)) + 1

\* The view is obscured in the wrong phase.
GivenStateInPhase2(s) == IF GetPhase(s) = 2 THEN Clone(s, WhoseTurn(s)) ELSE s

\* line 78: the view handed to the feature extractor and to the bot.
GivenState(s) == IF GetPhase(s) = 1 THEN Clone(s, WhoseTurn(s)) ELSE s

\* line 85: state.next(move) is called on the real state, not on the view.
Receiver(real, given) == real

\* The two labels are exchanged.
LabelSwapped(w, r) == IF w = 1 THEN "lost" ELSE IF w = 2 THEN "won" ELSE r

\* lines 92-96: the label for a winner; no branch binds result otherwise.
Label(w, r) == IF w = 1 THEN "won" ELSE IF w = 2 THEN "lost" ELSE r

\* The loop with target.append(result) dedented: one label per game.
LabelLoopDedented(vs, d, t, r, w) ==
    LET r2 == IF vs = <<>> THEN r ELSE Label(w, r) IN
    IF r2 = Unbound
    THEN [data |-> d \o vs, target |-> t, result |-> r, raised |-> TRUE]
    ELSE [data |-> d \o vs, target |-> Append(t, r2), result |-> r2,
          raised |-> FALSE]

\* lines 89-98: the labelling loop over the game's buffered vectors.
\* Reading result while it is unbound raises UnboundLocalError, after the
\* vector has been appended to data.
RECURSIVE LabelLoop(_, _, _, _, _)
LabelLoop(vs, d, t, r, w) ==
    IF vs = <<>>
    THEN [data |-> d, target |-> t, result |-> r, raised |-> FALSE]
    ELSE LET r2 == Label(w, r) IN
         IF r2 = Unbound
         THEN [data |-> Append(d, Head(vs)), target |-> t, result |-> r,
               raised |-> TRUE]
         ELSE LabelLoop(Tail(vs), Append(d, Head(vs)), Append(t, r2), r2, w)

\* Only the features are pickled.
DumpedFeaturesOnly(d, t) == FileOf(d, <<>>)

\* line 101: what pickle.dump writes.
Dumped(d, t) == FileOf(d, t)

\* lines 44-55: the locals before the loop.
Enter ==
    /\ pc = "create"
    /\ data' = <<>>
    /\ target' = <<>>
    /\ multiple_bots' = player_arg.is_list
    /\ player_list' = 1
    /\ player' = IF player_arg.is_list THEN Unbound ELSE player_arg.bots[1]
    /\ g' = 0
    /\ calls' = calls + 1
    /\ pc' = "for"
    /\ UNCHANGED <<caller, error, player_arg, games, phase, state,
                   state_vectors, winner, result, file, returned, writes,
                   games_log, last_call, file0, script_vars>>

\* lines 58-73: the loop head. Either the range is exhausted, or a game
\* starts: a state is generated and, with a roster, the next bot is taken
\* (an empty roster raises StopIteration).
ForGame ==
    /\ pc = "for"
    /\ IF ~InRange(g, games)
       THEN /\ pc' = "dump"
            /\ UNCHANGED <<error, state, state_vectors, player, player_list,
                           games_log>>
       ELSE \E s \in Generate(phase) :
            /\ state' = s
            /\ state_vectors' = <<>>
            /\ IF multiple_bots /\ player_arg.bots = <<>>
               THEN /\ pc' = "failed"
                    /\ error' = "StopIteration"
                    /\ UNCHANGED <<player, player_list, games_log>>
               ELSE /\ pc' = "while"
                    /\ player' = IF multiple_bots
                                 THEN CycleItem(player_arg.bots, player_list)
                                 ELSE player
                    /\ player_list' = IF multiple_bots
                                      THEN CycleAdvance(player_arg.bots, player_list)
                                      ELSE player_list
                    /\ games_log' = Append(games_log,
                           [bot |-> player', movers |-> <<>>, vectors |-> <<>>,
                            winner |-> -1])
                    /\ UNCHANGED error
    /\ UNCHANGED <<caller, player_arg, games, phase, data, target,
                   multiple_bots, g, winner, result, file, returned, writes,
                   last_call, file0, calls, script_vars>>

\* lines 75-85: one pass of the while loop on an unfinished state.
Move ==
    /\ pc = "while"
    /\ ~Finished(state)
    /\ LET given_state == GivenState(state)
           move == GetMove(player, given_state)
           n == Len(games_log)
       IN /\ state_vectors' = Append(state_vectors, Features(given_state))
          /\ state' = NextState(Receiver(state, given_state), move)
          /\ last_call' = [real |-> state, featured |-> given_state,
                           asked |-> move.seen,
                           advanced |-> Receiver(state, given_state),
                           bot |-> move.by]
          /\ games_log' = [games_log EXCEPT
                 ![n].movers = Append(@, move.by),
                 ![n].vectors = Append(@, Features(given_state))]
    /\ UNCHANGED <<pc, caller, error, player_arg, games, phase, data, target,
                   multiple_bots, player_list, g, player, winner, result,
                   file, returned, writes, file0, calls, script_vars>>

\* lines 87-98: the game is over; every buffered vector is labelled.
LabelGame ==
    /\ pc = "while"
    /\ Finished(state)
    /\ \E w \in Winners :
        LET out == LabelLoop(state_vectors, data, target, result, w) IN
        /\ winner' = w
        /\ data' = out.data
        /\ target' = out.target
        /\ result' = out.result
        /\ games_log' = [games_log EXCEPT ![Len(games_log)].winner = w]
        /\ IF out.raised
           THEN /\ pc' = "failed"
                /\ error' = "UnboundLocalError"
                /\ g' = g
           ELSE /\ pc' = "for"
                /\ g' = g + 1
                /\ UNCHANGED error
    /\ UNCHANGED <<caller, player_arg, games, phase, multiple_bots,
                   player_list, state, state_vectors, player, file, returned,
                   writes, last_call, file0, calls, script_vars>>

\* A collaborator raises: State.generate at the loop head, or features,
\* get_move, next or winner inside a game. Nothing catches it.
CollaboratorFails ==
    /\ \/ pc = "for" /\ InRange(g, games)
       \/ pc = "while"
    /\ pc' = "failed"
    /\ error' = "collaborator"
    /\ UNCHANGED <<caller, player_arg, games, phase, data, target,
                   multiple_bots, player_list, g, state, state_vectors,
                   player, winner, result, file, returned, writes, games_log,
                   last_call, file0, calls, script_vars>>

\* lines 100-101: the dataset is pickled to the path.
Dump ==
    /\ pc = "dump"
    /\ file' = Dumped(data, target)
    /\ writes' = writes + 1
    /\ pc' = "return"
    /\ UNCHANGED <<caller, error, player_arg, games, phase, data, target,
                   multiple_bots, player_list, g, state, state_vectors,
                   player, winner, result, returned, games_log, last_call,
                   file0, calls, script_vars>>

\* line 106: return data, target.
Return ==
    /\ pc = "return"
    /\ returned' = [exists |-> TRUE, data |-> data, target |-> target]
    /\ pc' = IF caller = "script" THEN "train" ELSE "done"
    /\ UNCHANGED <<caller, error, player_arg, games, phase, data, target,
                   multiple_bots, player_list, g, state, state_vectors,
                   player, winner, result, file, writes, games_log,
                   last_call, file0, calls, script_vars>>

\* ------------------------------------------------------------ the script
\* line 147-148: the grid of the sweep.
number_of_layers_list == <<1, 2, 3, 4>>
hidden_layer_sizes_list == <<128, 64, 32, 16>>
\* lines 152, 155
learning_rate == "0.0001"
regularization_strength == "0.0001"

\* line 136: the arguments the script generates the dataset with.
MainPlayers == Roster(<<"rand", "rdeep", "bully">>)

\* The test for the file is not negated.
RegenerateIfPresent(overwrite, isfile) == overwrite \/ isfile

\* line 135: whether the dataset is generated.
Regenerate(overwrite, isfile) == overwrite \/ ~isfile

\* str(n) for a natural number: its decimal digits.
DigitChars == <<"0", "1", "2", "3", "4", "5", "6", "7", "8", "9">>
RECURSIVE Str(_)
Str(n) ==
    IF n < 10 THEN <<DigitChars[n + 1]>>
    ELSE Str(n \div 10) \o <<DigitChars[(n % 10) + 1]>>

\* line 164: "model" + str(n_layers) + "x" + str(size) + ".pkl"
ModelPath(n_layers, size) ==
    <<"m", "o", "d", "e", "l">> \o Str(n_layers) \o <<"x">> \o Str(size)
        \o <<".", "p", "k", "l">>

\* line 189: "./bots/ml/" + model_path
StorePath(model_path) ==
    <<".", "/", "b", "o", "t", "s", "/", "m", "l", "/">> \o model_path

\* The comprehension with its two names exchanged.
HiddenLayerSizesSwapped(size, n_layers) == [k \in 1..size |-> n_layers]

\* line 171: [size for _ in range(n_layers)]
HiddenLayerSizes(size, n_layers) == [k \in 1..n_layers |-> size]

\* line 174: the classifier's configuration.
Learner(n_layers, size) ==
    [hidden_layer_sizes |-> HiddenLayerSizes(size, n_layers),
     learning_rate_init |-> learning_rate,
     alpha |-> regularization_strength]

\* What one pass of the loop body can come to: pickle.load raises, fit
\* raises, or the pass completes.
Outcomes == {"load_failed", "fit_failed", "ok"}

\* A loop body that swallows the exception and goes on.
ContinuesAlways(outcome) == TRUE

\* Nothing catches an exception in the loop: only a completed pass goes on
\* to the next configuration.
Continues(outcome) == outcome = "ok"

\* line 189 is reached only when fit (line 177) has returned.
Stores(outcome) == outcome = "ok"

\* lines 159-160: the cursors after (i, j), sizes innermost; <<0, 0>> once
\* both lists are exhausted.
NextCursor(c) ==
    IF c[2] < Len(hidden_layer_sizes_list) THEN <<c[1], c[2] + 1>>
    ELSE IF c[1] < Len(number_of_layers_list) THEN <<c[1] + 1, 1>>
    ELSE <<0, 0>>

\* lines 133-136: the command line is parsed and the dataset generated if
\* asked for or missing.
Main ==
    /\ pc = "main"
    /\ IF Regenerate(options.overwrite, file.exists)
       THEN /\ pc' = "create"
            /\ player_arg' = MainPlayers
            /\ games' = MainGames
            /\ phase' = 1
       ELSE /\ pc' = "train"
            /\ UNCHANGED <<player_arg, games, phase>>
    /\ UNCHANGED <<caller, error, data, target, multiple_bots, player_list,
                   g, state, state_vectors, player, winner, result, file,
                   returned, writes, games_log, last_call, file0, calls,
                   script_vars>>

\* line 138: if options.train; the first configuration, if there is one.
Train ==
    /\ pc = "train"
    /\ IF options.train
          /\ number_of_layers_list # <<>> /\ hidden_layer_sizes_list # <<>>
       THEN pc' = "sweep" /\ cursor' = <<1, 1>>
       ELSE pc' = "done" /\ UNCHANGED cursor
    /\ UNCHANGED <<dataset_vars_but_pc, options, model_files, sweep_log>>

\* lines 160-193: one pass of the inner loop body.
Sweep ==
    /\ pc = "sweep"
    /\ \E outcome \in Outcomes :
        LET n_layers == number_of_layers_list[cursor[1]]
            size == hidden_layer_sizes_list[cursor[2]]
            model_path == ModelPath(n_layers, size)
            learner == Learner(n_layers, size)
            loaded == [op |-> "load", n |-> n_layers, size |-> size,
                       ok |-> outcome # "load_failed"]
            fitted == [op |-> "fit", n |-> n_layers, size |-> size,
                       ok |-> outcome = "ok"]
            dumped == [op |-> "dump", n |-> n_layers, size |-> size,
                       ok |-> TRUE]
        IN /\ \* a missing file cannot be loaded
              outcome # "load_failed" => file.exists
           /\ sweep_log' = sweep_log
                   \o <<loaded>>
                   \o (IF outcome = "load_failed" THEN <<>> ELSE <<fitted>>)
                   \o (IF Stores(outcome) THEN <<dumped>> ELSE <<>>)
           /\ model_files' =
                   IF Stores(outcome)
                   THEN Append(model_files,
                               [path |-> StorePath(model_path),
                                model |-> learner,
                                n |-> n_layers, size |-> size])
                   ELSE model_files
           /\ IF Continues(outcome)
              THEN /\ cursor' = NextCursor(cursor)
                   /\ pc' = IF cursor' = <<0, 0>> THEN "done" ELSE "sweep"
                   /\ UNCHANGED error
              ELSE /\ pc' = "failed"
                   /\ error' = outcome
                   /\ UNCHANGED cursor
    /\ UNCHANGED <<caller, player_arg, games, phase, data, target,
                   multiple_bots, player_list, g, state, state_vectors,
                   player, winner, result, file, returned, writes, games_log,
                   last_call, file0, calls, options>>

\* ------------------------------------------------------ specifications
InitLocals ==
    /\ error = "none"
    /\ data = <<>>
    /\ target = <<>>
    /\ multiple_bots = FALSE
    /\ player_list = 1
    /\ g = 0
    /\ state = NoState
    /\ state_vectors = <<>>
    /\ player = Unbound
    /\ winner = -1
    /\ result = Unbound
    /\ returned = NoFile
    /\ writes = 0
    /\ games_log = <<>>
    /\ last_call = NoCall
    /\ calls = 0
    /\ cursor = <<0, 0>>
    /\ model_files = <<>>
    /\ sweep_log = <<>>

\* create_dataset called on its own, with any arguments.
InitDataset ==
    /\ pc = "create"
    /\ caller = "direct"
    /\ player_arg \in PlayerArgs
    /\ games \in 0..MaxGames
    /\ phase \in 1..2
    /\ file \in {NoFile, OldFile}
    /\ file0 = file
    /\ options = [overwrite |-> FALSE, train |-> FALSE]
    /\ InitLocals

NextDataset ==
    \/ Enter
    \/ ForGame
    \/ Move
    \/ LabelGame
    \/ CollaboratorFails
    \/ Dump
    \/ Return

SpecDataset == InitDataset /\ [][NextDataset]_vars

\* The script run from the command line.
Init ==
    /\ pc = "main"
    /\ caller = "script"
    /\ options \in [overwrite : BOOLEAN, train : BOOLEAN]
    /\ file \in {NoFile, OldFile}
    /\ file0 = file
    /\ player_arg = SinglePlayer("rand")
    /\ games = 0
    /\ phase = 1
    /\ InitLocals

Next ==
    \/ Main
    \/ Enter
    \/ ForGame
    \/ Move
    \/ LabelGame
    \/ CollaboratorFails
    \/ Dump
    \/ Return
    \/ Train
    \/ Sweep

Spec == Init /\ [][Next]_vars

\* ------------------------------------------------------------ properties
\* The games that have been labelled (their winner is known).
Labelled(i) == games_log[i].winner # -1

\* The vectors of the first n games of the history, game after game.
RECURSIVE Flat(_)
Flat(n) == IF n = 0 THEN <<>> ELSE Flat(n - 1) \o games_log[n].vectors

\* A dataset has been written or handed back.
Persisted == writes > 0
Returned == returned.exists

\* C1: create_dataset(path, player, games=gameCount) simulates exactly
\* gameCount games before the dataset is persisted.
C1_ExactlyGamesSimulated ==
    Persisted => Len(games_log) = games

C3_RoundRobin ==
    /\ \A i \in 1..Len(games_log) :
          /\ games_log[i].bot =
                 IF player_arg.is_list
                 THEN player_arg.bots[((i - 1) % Len(player_arg.bots)) + 1]
                 ELSE player_arg.bots[1]
          /\ \A k \in 1..Len(games_log[i].movers) :
                 games_log[i].movers[k] = games_log[i].bot
    /\ (multiple_bots /\ player_arg.bots # <<>>) =>
          player_list = (Len(games_log) % Len(player_arg.bots)) + 1
    /\ pc = "while" => player = games_log[Len(games_log)].bot

C3_Witness ==
    /\ player_arg = Roster(<<"rand", "rdeep">>)
    /\ Len(games_log) = 2
    /\ games_log[1].movers = <<"rand", "rand">>
    /\ games_log[2].movers = <<"rdeep">>
    /\ games_log[1].winner # games_log[2].winner
    /\ player_list = 1
    /\ Persisted

\* C4: the dataset is regenerated iff the overwrite flag is set or there is
\* no file at the dataset path; otherwise no game is simulated and the file
\* is the one training reads.
C4_RegenerateIffAskedOrMissing ==
    LET wanted == options.overwrite \/ ~file0.exists IN
    /\ pc # "main" => ((pc = "create" \/ calls = 1) <=> wanted)
    /\ calls <= 1
    /\ ~wanted => /\ calls = 0
                  /\ games_log = <<>>
                  /\ writes = 0
                  /\ file = file0

C4_Witness ==
    /\ ~options.overwrite /\ file0.exists
    /\ pc = "sweep"
    /\ Len(sweep_log) > 0
    /\ games_log = <<>>

\* The file name of a path: what follows its last "/".
RECURSIVE FileName(_)
FileName(path) ==
    IF \E k \in 1..Len(path) : path[k] = "/" THEN FileName(Tail(path))
    ELSE path

GridWidth == Len(hidden_layer_sizes_list)
GridSize == Len(number_of_layers_list) * GridWidth
\* The k-th pair of the grid, layer counts outermost.
PairAt(k) ==
    [n |-> number_of_layers_list[((k - 1) \div GridWidth) + 1],
     size |-> hidden_layer_sizes_list[((k - 1) % GridWidth) + 1]]

\* The k-th artifact is the one of the k-th pair, stored under the name
\* "model" + n + "x" + w + suffix, with n layers of width w and the fixed
\* learning rate and regularization strength.
ArtifactsInOrder(suffix) ==
    /\ Len(model_files) <= GridSize
    /\ \A k \in 1..Len(model_files) :
          LET f == model_files[k]
              n == PairAt(k).n
              w == PairAt(k).size
          IN /\ FileName(f.path) =
                    <<"m", "o", "d", "e", "l">> \o Str(n) \o <<"x">> \o Str(w)
                        \o suffix
             /\ Len(f.model.hidden_layer_sizes) = n
             /\ \A l \in 1..n : f.model.hidden_layer_sizes[l] = w
             /\ f.model.learning_rate_init = learning_rate
             /\ f.model.alpha = regularization_strength
             /\ \A j \in 1..(k - 1) : model_files[j].path # f.path
    /\ (pc = "done" /\ options.train) => Len(model_files) = GridSize

\* C5 as stated: ... each stored under the name "model" + n + "x" + w.
C5_NameWithoutSuffix == ArtifactsInOrder(<<>>)

\* C5: the sweep persists exactly one artifact per pair (n, w), layer
\* counts outermost, each stored under the name "model" + n + "x" + w +
\* ".pkl" in ./bots/ml/ and trained with n hidden layers of width w, the
\* fixed learning rate and the fixed regularization strength.
C5_SweepArtifacts ==
    /\ ArtifactsInOrder(<<".", "p", "k", "l">>)
    /\ Len(model_files) >= 1 =>
          model_files[1].path =
              <<".", "/", "b", "o", "t", "s", "/", "m", "l", "/",
                "m", "o", "d", "e", "l", "1", "x", "1", "2", "8",
                ".", "p", "k", "l">>

C5_Witness ==
    /\ pc = "done"
    /\ Len(model_files) = GridSize
    /\ Len(model_files[GridSize].model.hidden_layer_sizes) = 4

\* C6: a dataset written or returned holds, game after game in the order
\* played, one record per decision point: features and labels are equally
\* long, as long as the games' decision points together.
DatasetOfGames(d) ==
    /\ d.data = Flat(Len(games_log))
    /\ Len(d.target) = Len(d.data)

C6_DatasetIsTheGames ==
    /\ Persisted => DatasetOfGames(file)
    /\ Returned => DatasetOfGames(returned)

C6_Witness ==
    /\ Returned /\ Persisted
    /\ Len(games_log) = 2
    /\ Len(games_log[1].vectors) = 1
    /\ Len(games_log[2].vectors) = 2
    /\ Len(returned.target) = 3

\* C7: the dataset path is written once, after the last game has been
\* labelled, with the very pair that is returned; a run that fails leaves
\* the path as it was.
C7_WrittenOnceAtTheEnd ==
    /\ writes <= 1
    /\ writes = 0 => file = file0
    /\ Persisted =>
          /\ pc \in {"return", "done"}
          /\ ~InRange(g, games)
          /\ g = Len(games_log)
          /\ \A i \in 1..Len(games_log) : Labelled(i)
    /\ Returned => Persisted /\ returned = file
    /\ pc = "failed" => writes = 0 /\ ~Returned

C7_Witness ==
    /\ Returned
    /\ file0 = OldFile
    /\ Len(returned.data) >= 2
    /\ Len(returned.target) >= 2

\* C8: a game that ends with a winner other than player 1 or 2 ends the
\* run with an error: its vectors get no label and no dataset holding the
\* game is written or returned.
C8_MalformedOutcomeIsAnError ==
    \A i \in 1..Len(games_log) :
        (games_log[i].winner = NoWinner /\ games_log[i].vectors # <<>>) =>
            /\ pc = "failed"
            /\ Len(target) <= Len(Flat(i - 1))
            /\ ~Persisted /\ ~Returned

\* C9: at every decision point the extractor and the bot get the same
\* view, which is the clone signed by the player on turn iff the phase is
\* 1 and the state itself otherwise; the successor is computed from the
\* real state, and each move asked for buffers one vector.
C9_SameViewRealSuccessor ==
    /\ state.sig = NoSignature
    /\ last_call.real.sig = NoSignature
    /\ last_call.featured = last_call.asked
    /\ last_call.featured =
          IF last_call.real.phase = 1
          THEN [last_call.real EXCEPT !.sig = last_call.real.turn]
          ELSE last_call.real
    /\ (last_call.featured = last_call.real) <=> (last_call.real.phase # 1)
    /\ last_call.advanced = last_call.real
    /\ pc = "while" =>
          /\ Len(state_vectors) = Len(games_log[Len(games_log)].movers)
          /\ Len(state_vectors) > 0 =>
                state_vectors[Len(state_vectors)] = Features(last_call.asked)

C9_Witness ==
    /\ pc = "while"
    /\ Len(state_vectors) = 2
    /\ last_call.real.phase = 2 /\ last_call.real.turn = 1
    /\ last_call.featured.sig = NoSignature
    /\ state_vectors[1][1] = 1 /\ state_vectors[1][4] = 2

\* The position of the cursors in the grid, counted from 1.
GridIndex(c) == (c[1] - 1) * GridWidth + c[2]
SweepFailed == error \in {"load_failed", "fit_failed"}

\* C10: the sweep stops at the first load or fit that fails: nothing is
\* stored for that configuration or a later one, nothing is retried, and
\* the earlier artifacts remain; every pass loads the dataset before it
\* fits, and stores only after the fit has succeeded.
C10_AbortOnFirstFailure ==
    /\ \A k \in 1..(Len(sweep_log) - 1) : sweep_log[k].ok
    /\ \A k \in 1..Len(sweep_log) :
          LET e == sweep_log[k] IN
          /\ e.op = "load" =>
                /\ k > 1 => sweep_log[k - 1].op = "dump"
                /\ \A j \in 1..(k - 1) :
                      sweep_log[j].op = "load" =>
                          <<sweep_log[j].n, sweep_log[j].size>> # <<e.n, e.size>>
          /\ e.op \in {"fit", "dump"} =>
                /\ k > 1
                /\ sweep_log[k - 1].op = (IF e.op = "fit" THEN "load" ELSE "fit")
                /\ sweep_log[k - 1].ok
                /\ sweep_log[k - 1].n = e.n /\ sweep_log[k - 1].size = e.size
    /\ \A k \in 1..Len(model_files) :
          /\ model_files[k].n = PairAt(k).n
          /\ model_files[k].size = PairAt(k).size
          /\ \E j \in 1..Len(sweep_log) :
                sweep_log[j] = [op |-> "dump", n |-> PairAt(k).n,
                                size |-> PairAt(k).size, ok |-> TRUE]
    /\ Cardinality({k \in 1..Len(sweep_log) : sweep_log[k].op = "load"})
          = Len(model_files) + (IF SweepFailed THEN 1 ELSE 0)
    /\ SweepFailed =>
          /\ pc = "failed"
          /\ Len(model_files) = GridIndex(cursor) - 1
          /\ ~sweep_log[Len(sweep_log)].ok
          /\ sweep_log[Len(sweep_log)].n = PairAt(GridIndex(cursor)).n
          /\ sweep_log[Len(sweep_log)].size = PairAt(GridIndex(cursor)).size

C10_Witness ==
    /\ error = "fit_failed"
    /\ Len(model_files) = 5
    /\ cursor = <<2, 2>>

====
